---- MODULE Spec2Model ----
(***************************************************************************)
(* Celtic knot generation (celtic-knot.py): the half-edge walk of          *)
(* create_bezier / make_loop over a polygonal mesh, with the visited maps  *)
(* loops_entered / loops_exited, the outer scan that seeds the walks and   *)
(* the operator's execute.                                                 *)
(*                                                                         *)
(* The mesh is the input.  A face is the cyclic sequence of its vertices;  *)
(* the loop (half-edge) <<f, i>> is the i-th corner of face f, its vert is *)
(* faces[f][i] and its edge joins that vertex to the next one of the face. *)
(* Faces are triangles over the vertices 1..NumVerts.  Geometry (normals,  *)
(* midpoints, handles) is kept symbolic: a point records the edge whose    *)
(* midpoint is its base, the two loops whose normals are averaged and      *)
(* which of weave_up / weave_down offsets it.                              *)
(***************************************************************************)
EXTENDS Integers, Sequences, FiniteSets, TLC

NumVerts == 4
MaxFaces == 4

Verts == 1..NumVerts
FaceIds == 1..MaxFaces
NoLoop == <<0, 0>>

VARIABLES
    faces,          \* bm.faces: sequence of faces, each a sequence of vertices
    linked,         \* per loop, its link_loops: the other loops around its edge
    cfg,            \* operator properties read by execute
    pc,             \* position in execute / create_bezier / make_loop
    ret,            \* where make_loop returns to in the outer scan
    loops_entered,  \* defaultdict(lambda: False)
    loops_exited,   \* defaultdict(lambda: False)
    loop,           \* make_loop: current loop
    forward,        \* make_loop: current direction
    v,              \* make_loop: remembered vertex index
    prev_loop,      \* make_loop: loop crossed from
    splines,        \* curve.splines, in creation order
    scanned,        \* faces the outer scan is done with
    face,           \* face the outer scan is in (0: none)
    l_first,        \* first loop index of face.loops for that face
    k,              \* number of loops of that face already scanned
    enteredBy,      \* per loop: spline indices that wrote loops_entered[loop] = True
    exitedBy,       \* per loop: spline indices that wrote loops_exited[loop] = True
    steps,          \* executed (non-closing) traversal steps
    outcome         \* result of the run

vars == <<faces, linked, cfg, pc, ret, loops_entered, loops_exited, loop,
          forward, v, prev_loop, splines, scanned, face, l_first, k,
          enteredBy, exitedBy, steps, outcome>>

----------------------------------------------------------------------------
(* Topology queries of bmesh, as functions of the mesh.                    *)

NumFaces(fs) == Len(fs)
FaceSize(fs, f) == Len(fs[f])
Loops(fs) == {<<f, i>> : f \in 1..NumFaces(fs), i \in 1..3}
LoopIds == FaceIds \X (1..3)

\* loop.link_loop_next
link_loop_next(fs, l) == <<l[1], (l[2] % FaceSize(fs, l[1])) + 1>>

\* loop.link_loop_prev
link_loop_prev(fs, l) == <<l[1], ((l[2] + FaceSize(fs, l[1]) - 2) % FaceSize(fs, l[1])) + 1>>

\* loop.vert.index
vert(fs, l) == fs[l[1]][l[2]]

\* loop.edge: the edge from loop.vert to loop.link_loop_next.vert
edge(fs, l) == {vert(fs, l), vert(fs, link_loop_next(fs, l))}

\* the loop of face f on edge e (a face has at most one)
LoopOn(fs, f, e) == <<f, CHOOSE i \in 1..FaceSize(fs, f) : edge(fs, <<f, i>>) = e>>

\* the radial cycle of an edge: its loops, in the face order ro
RadialCycle(fs, ro, e) ==
    LET onE(f) == \E i \in 1..FaceSize(fs, f) : edge(fs, <<f, i>>) = e
        fseq == SelectSeq(ro, onE)
    IN  [j \in 1..Len(fseq) |-> LoopOn(fs, fseq[j], e)]

\* the other loops of the radial cycle of l's edge, starting after l
RadialLinks(fs, ro, l) ==
    LET cyc == RadialCycle(fs, ro, edge(fs, l))
        n == Len(cyc)
        j == CHOOSE i \in 1..n : cyc[i] = l
    IN  [m \in 1..(n - 1) |-> cyc[((j - 1 + m) % n) + 1]]

\* the radial links bmesh holds for a mesh whose faces lie around the edges
\* in the order ro
LinksOf(fs, ro) ==
    [l \in LoopIds |-> IF l \in Loops(fs) THEN RadialLinks(fs, ro, l) ELSE <<>>]

\* loop.link_loops
link_loops(l) == linked[l]

\* def ignorable_loop(loop)
ignorable_loop(l) == Len(link_loops(l)) = 0

\* the loops that are not on a boundary edge
interior == {l \in LoopIds : ~ignorable_loop(l)}

----------------------------------------------------------------------------
(* The input meshes: sets of at most MaxFaces triangles over Verts, each   *)
(* triangle being one of the two cyclic orders of a vertex triple.  Vertex *)
(* names only matter up to renaming, so a non-empty mesh is taken to       *)
(* contain the triangle <<1, 2, 3>>.  bm.faces is kept as a sequence; the  *)
(* order in which the scan meets the faces is chosen by the scan.          *)

Triples == {S \in SUBSET Verts : Cardinality(S) = 3}

Min(S) == CHOOSE x \in S : \A y \in S : x <= y
Max(S) == CHOOSE x \in S : \A y \in S : x >= y
Mid(S) == CHOOSE x \in S : x # Min(S) /\ x # Max(S)

\* the two cyclic orders of a vertex triple, each written from its least vertex
Tri(S, flip) == IF flip THEN <<Min(S), Max(S), Mid(S)>> ELSE <<Min(S), Mid(S), Max(S)>>

Triangles == {Tri(S, b) : S \in Triples, b \in BOOLEAN}

Code(t) == (t[1] * (NumVerts + 1) + t[2]) * (NumVerts + 1) + t[3]

RECURSIVE SortFaces(_)
SortFaces(S) ==
    IF S = {} THEN <<>>
    ELSE LET t == CHOOSE x \in S : \A y \in S : Code(x) <= Code(y)
         IN  <<t>> \o SortFaces(S \ {t})

\* the subsets of S with at most n elements
RECURSIVE UpTo(_, _)
UpTo(S, n) ==
    IF n = 0 \/ S = {} THEN {{}}
    ELSE LET x == CHOOSE y \in S : TRUE
         IN  UpTo(S \ {x}, n) \cup {T \cup {x} : T \in UpTo(S \ {x}, n - 1)}

\* renaming the vertices of a triangle by p, written from its least vertex
Rename(t, p) ==
    LET a == p[t[1]]
        b == p[t[2]]
        c == p[t[3]]
    IN  IF a < b /\ a < c THEN <<a, b, c>>
        ELSE IF b < a /\ b < c THEN <<b, c, a>>
        ELSE <<c, a, b>>

\* the renamings that keep the triangle <<1, 2, 3>>: a rotation of its
\* vertices and a permutation of the other vertices
Others == Verts \ {1, 2, 3}

Renamings ==
    {[x \in Verts |-> IF x \in Others THEN q[x] ELSE r[x]] :
        r \in {<<1, 2, 3>>, <<2, 3, 1>>, <<3, 1, 2>>},
        q \in {f \in [Others -> Others] : \A x \in Others : \E y \in Others : f[y] = x}}

\* a number for a set of triangles, to compare a mesh with its renamings
RECURSIVE Key(_)
Key(T) ==
    IF T = {} THEN 0
    ELSE LET t == CHOOSE x \in T : TRUE IN Code(t) * Code(t) + Key(T \ {t})

\* a mesh of each class of renamings: one of least key
Least(T) == \A p \in Renamings : Key(T) <= Key({Rename(t, p) : t \in T})

Meshes ==
    IF MaxFaces = 0 THEN {<<>>}
    ELSE {<<>>} \cup
         {SortFaces(T) :
             T \in {W \in {U \cup {<<1, 2, 3>>} : U \in UpTo(Triangles, MaxFaces - 1)} : Least(W)}}

Identity(n) == [i \in 1..n |-> i]
Reverse(n) == [i \in 1..n |-> n + 1 - i]

\* every edge borders at most two faces
Manifold(fs) == \A l \in Loops(fs) : Len(RadialLinks(fs, Identity(Len(fs)), l)) <= 1

\* the two loops of an interior edge start at opposite endpoints
Oriented(fs) ==
    \A l \in Loops(fs) : \A m \in Loops(fs) :
        (m # l /\ edge(fs, m) = edge(fs, l)) => vert(fs, m) # vert(fs, l)

ManifoldMeshes == {fs \in Meshes : Manifold(fs)}
OrientedMeshes == {fs \in ManifoldMeshes : Oriented(fs)}

\* operator properties: crossing_angle in units of pi/4 (hard range [0, pi/2]),
\* crossing_strength and thickness any float (soft_min only)
DefaultCfg == [crossing_angle |-> 1, crossing_strength |-> 0, thickness |-> 0]
Cfgs == [crossing_angle : 0..2, crossing_strength : -1..1, thickness : -1..1]

InitRun(fs, ro, c) ==
    /\ faces = fs
    /\ linked = LinksOf(fs, ro)
    /\ cfg = c
    /\ pc = "start"
    /\ ret = "none"
    /\ loops_entered = [l \in LoopIds |-> FALSE]
    /\ loops_exited = [l \in LoopIds |-> FALSE]
    /\ loop = NoLoop
    /\ forward = TRUE
    /\ v = 0
    /\ prev_loop = NoLoop
    /\ splines = <<>>
    /\ scanned = {}
    /\ face = 0
    /\ l_first = 0
    /\ k = 0
    /\ enteredBy = [l \in LoopIds |-> <<>>]
    /\ exitedBy = [l \in LoopIds |-> <<>>]
    /\ steps = 0
    /\ outcome = "none"

Init == \E fs \in ManifoldMeshes : InitRun(fs, Identity(Len(fs)), DefaultCfg)

----------------------------------------------------------------------------
(* execute and the outer scan of create_bezier                             *)

\* CelticKnotOperator.execute up to the scan: bm, twists, caches, fresh maps
Execute ==
    /\ pc = "start"
    /\ pc' = "scan_face"
    /\ UNCHANGED <<faces, linked, cfg, ret, loops_entered, loops_exited, loop,
                   forward, v, prev_loop, splines, scanned, face, l_first, k,
                   enteredBy, exitedBy, steps, outcome>>

\* for face in bm.faces: the next face, and where its face.loops starts
ScanFace ==
    /\ pc = "scan_face"
    /\ \E f \in (1..NumFaces(faces)) \ scanned : \E s \in 1..FaceSize(faces, f) :
          /\ face' = f
          /\ l_first' = s
    /\ k' = 0
    /\ pc' = "scan_loop"
    /\ UNCHANGED <<faces, linked, cfg, ret, loops_entered, loops_exited, loop,
                   forward, v, prev_loop, splines, scanned, enteredBy, exitedBy,
                   steps, outcome>>

\* mutant: the scan looks at the first loop of the face every time
ScanLoopAt_first == <<face, l_first>>

\* the loop the scan is at
ScanLoopAt == <<face, ((l_first - 1 + k) % FaceSize(faces, face)) + 1>>

\* mutant: the walk is started in the direction opposite to the one seeded
CallMakeLoop_flipped(l, fwd, r) ==
    /\ splines' = Append(splines, [seed |-> l, dir |-> ~fwd, pts |-> <<>>,
                                   closed |-> FALSE, closedAt |-> <<NoLoop, ~fwd>>])
    /\ loop' = l
    /\ forward' = ~fwd
    /\ ret' = r
    /\ pc' = "loop_top"

\* make_loop(loop, forward): the new cyclic spline and the local state
CallMakeLoop(l, fwd, r) ==
    /\ splines' = Append(splines, [seed |-> l, dir |-> fwd, pts |-> <<>>,
                                   closed |-> FALSE, closedAt |-> <<NoLoop, fwd>>])
    /\ loop' = l
    /\ forward' = fwd
    /\ ret' = r
    /\ pc' = "loop_top"

\* mutant: the scan does not skip the boundary loops
ScanLoop_unfiltered ==
    /\ pc = "scan_loop"
    /\ IF k = FaceSize(faces, face)
       THEN /\ scanned' = scanned \cup {face}
            /\ face' = 0
            /\ pc' = "scan_face"
            /\ UNCHANGED <<k, ret, loop, forward, splines>>
       ELSE IF ~loops_exited[ScanLoopAt]
       THEN /\ CallMakeLoop(ScanLoopAt, TRUE, "seed_bwd")
            /\ UNCHANGED <<k, scanned, face>>
       ELSE /\ pc' = "seed_bwd"
            /\ UNCHANGED <<k, scanned, face, ret, loop, forward, splines>>
    /\ UNCHANGED <<faces, linked, cfg, loops_entered, loops_exited, v, prev_loop,
                   l_first, enteredBy, exitedBy, steps, outcome>>

\* for loop in face.loops: skip boundary loops, seed a forward walk
ScanLoop ==
    /\ pc = "scan_loop"
    /\ IF k = FaceSize(faces, face)
       THEN /\ scanned' = scanned \cup {face}
            /\ face' = 0
            /\ pc' = "scan_face"
            /\ UNCHANGED <<k, ret, loop, forward, splines>>
       ELSE IF ignorable_loop(ScanLoopAt)
       THEN /\ k' = k + 1
            /\ UNCHANGED <<pc, scanned, face, ret, loop, forward, splines>>
       ELSE IF ~loops_exited[ScanLoopAt]
       THEN /\ CallMakeLoop(ScanLoopAt, TRUE, "seed_bwd")
            /\ UNCHANGED <<k, scanned, face>>
       ELSE /\ pc' = "seed_bwd"
            /\ UNCHANGED <<k, scanned, face, ret, loop, forward, splines>>
    /\ UNCHANGED <<faces, linked, cfg, loops_entered, loops_exited, v, prev_loop,
                   l_first, enteredBy, exitedBy, steps, outcome>>

\* mutant: the backward walk is seeded without looking at loops_entered
SeedBackward_always ==
    /\ pc = "seed_bwd"
    /\ CallMakeLoop(ScanLoopAt, FALSE, "scan_loop")
    /\ UNCHANGED <<faces, linked, cfg, loops_entered, loops_exited, v, prev_loop,
                   scanned, face, l_first, k, enteredBy, exitedBy, steps, outcome>>

\* mutant: the backward walk of a loop not yet entered may also be left out
SeedBackward_maybe ==
    /\ pc = "seed_bwd"
    /\ \/ /\ ~loops_entered[ScanLoopAt]
          /\ CallMakeLoop(ScanLoopAt, FALSE, "scan_loop")
          /\ UNCHANGED k
       \/ /\ pc' = "scan_loop"
          /\ k' = k + 1
          /\ UNCHANGED <<ret, loop, forward, splines>>
    /\ UNCHANGED <<faces, linked, cfg, loops_entered, loops_exited, v, prev_loop,
                   scanned, face, l_first, enteredBy, exitedBy, steps, outcome>>

\* if not loops_entered[loop]: make_loop(loop, False)
SeedBackward ==
    /\ pc = "seed_bwd"
    /\ IF ~loops_entered[ScanLoopAt]
       THEN /\ CallMakeLoop(ScanLoopAt, FALSE, "scan_loop")
            /\ UNCHANGED k
       ELSE /\ pc' = "scan_loop"
            /\ k' = k + 1
            /\ UNCHANGED <<ret, loop, forward, splines>>
    /\ UNCHANGED <<faces, linked, cfg, loops_entered, loops_exited, v, prev_loop,
                   scanned, face, l_first, enteredBy, exitedBy, steps, outcome>>

\* after the scan: the curve object, and the pipe when thickness > 0
Finish ==
    /\ pc = "scan_face"
    /\ scanned = 1..NumFaces(faces)
    /\ pc' = "done"
    /\ outcome' = IF cfg.thickness > 0 THEN "FINISHED_PIPE" ELSE "FINISHED"
    /\ UNCHANGED <<faces, linked, cfg, ret, loops_entered, loops_exited, loop,
                   forward, v, prev_loop, splines, scanned, face, l_first, k,
                   enteredBy, exitedBy, steps>>

----------------------------------------------------------------------------
(* make_loop                                                               *)

Cur == Len(splines)

\* mutant: the closure check does not leave the while True
CloseSpline_continue ==
    /\ splines' = [splines EXCEPT ![Cur].closed = TRUE,
                                  ![Cur].closedAt = <<loop, forward>>]
    /\ pc' = "loop_top"
    /\ k' = k

\* the break of the while True, and the return to the scan
CloseSpline ==
    /\ splines' = [splines EXCEPT ![Cur].closed = TRUE,
                                  ![Cur].closedAt = <<loop, forward>>]
    /\ pc' = ret
    /\ k' = IF ret = "scan_loop" THEN k + 1 ELSE k

\* mutant: each branch tests the other map for closure
LoopTop_swapped ==
    /\ pc = "loop_top"
    /\ IF forward
       THEN IF loops_entered[loop]
            THEN /\ CloseSpline
                 /\ UNCHANGED <<loops_entered, loops_exited, enteredBy, exitedBy>>
            ELSE /\ loops_exited' = [loops_exited EXCEPT ![loop] = TRUE]
                 /\ exitedBy' = [exitedBy EXCEPT ![loop] = Append(@, Cur)]
                 /\ pc' = "fwd_skip"
                 /\ UNCHANGED <<loops_entered, enteredBy, splines, k>>
       ELSE IF loops_exited[loop]
            THEN /\ CloseSpline
                 /\ UNCHANGED <<loops_entered, loops_exited, enteredBy, exitedBy>>
            ELSE /\ loops_entered' = [loops_entered EXCEPT ![loop] = TRUE]
                 /\ enteredBy' = [enteredBy EXCEPT ![loop] = Append(@, Cur)]
                 /\ pc' = "bwd_skip"
                 /\ UNCHANGED <<loops_exited, exitedBy, splines, k>>
    /\ UNCHANGED <<faces, linked, cfg, ret, loop, forward, v, prev_loop,
                   scanned, face, l_first, steps, outcome>>

\* mutant: the backward branch marks loops_exited on the loop it starts from
LoopTop_exitfirst ==
    /\ pc = "loop_top"
    /\ IF forward
       THEN IF loops_exited[loop]
            THEN /\ CloseSpline
                 /\ UNCHANGED <<loops_entered, loops_exited, enteredBy, exitedBy>>
            ELSE /\ loops_exited' = [loops_exited EXCEPT ![loop] = TRUE]
                 /\ exitedBy' = [exitedBy EXCEPT ![loop] = Append(@, Cur)]
                 /\ pc' = "fwd_skip"
                 /\ UNCHANGED <<loops_entered, enteredBy, splines, k>>
       ELSE IF loops_entered[loop]
            THEN /\ CloseSpline
                 /\ UNCHANGED <<loops_entered, loops_exited, enteredBy, exitedBy>>
            ELSE /\ loops_exited' = [loops_exited EXCEPT ![loop] = TRUE]
                 /\ exitedBy' = [exitedBy EXCEPT ![loop] = Append(@, Cur)]
                 /\ pc' = "bwd_skip"
                 /\ UNCHANGED <<loops_entered, enteredBy, splines, k>>
    /\ UNCHANGED <<faces, linked, cfg, ret, loop, forward, v, prev_loop,
                   scanned, face, l_first, steps, outcome>>

\* top of the while True: the closure check and the first mark
LoopTop ==
    /\ pc = "loop_top"
    /\ IF forward
       THEN IF loops_exited[loop]
            THEN /\ CloseSpline
                 /\ UNCHANGED <<loops_entered, loops_exited, enteredBy, exitedBy>>
            ELSE /\ loops_exited' = [loops_exited EXCEPT ![loop] = TRUE]
                 /\ exitedBy' = [exitedBy EXCEPT ![loop] = Append(@, Cur)]
                 /\ pc' = "fwd_skip"
                 /\ UNCHANGED <<loops_entered, enteredBy, splines, k>>
       ELSE IF loops_entered[loop]
            THEN /\ CloseSpline
                 /\ UNCHANGED <<loops_entered, loops_exited, enteredBy, exitedBy>>
            ELSE /\ loops_entered' = [loops_entered EXCEPT ![loop] = TRUE]
                 /\ enteredBy' = [enteredBy EXCEPT ![loop] = Append(@, Cur)]
                 /\ pc' = "bwd_skip"
                 /\ UNCHANGED <<loops_exited, exitedBy, splines, k>>
    /\ UNCHANGED <<faces, linked, cfg, ret, loop, forward, v, prev_loop,
                   scanned, face, l_first, steps, outcome>>

\* mutant: the forward walk follows the face around by link_loop_prev
FwdSkip_prev ==
    /\ pc = "fwd_skip"
    /\ loop' = link_loop_prev(faces, loop)
    /\ pc' = IF ~ignorable_loop(loop') THEN "fwd_cross" ELSE "fwd_skip"
    /\ UNCHANGED <<faces, linked, cfg, ret, loops_entered, loops_exited, forward,
                   v, prev_loop, splines, scanned, face, l_first, k, enteredBy,
                   exitedBy, steps, outcome>>

\* forward: one turn of "loop = loop.link_loop_next" until not ignorable
FwdSkip ==
    /\ pc = "fwd_skip"
    /\ loop' = link_loop_next(faces, loop)
    /\ pc' = IF ~ignorable_loop(loop') THEN "fwd_cross" ELSE "fwd_skip"
    /\ UNCHANGED <<faces, linked, cfg, ret, loops_entered, loops_exited, forward,
                   v, prev_loop, splines, scanned, face, l_first, k, enteredBy,
                   exitedBy, steps, outcome>>

\* mutant: v is read after the move to link_loop_prev, not before
BwdSkip_vafter ==
    /\ pc = "bwd_skip"
    /\ v' = vert(faces, link_loop_prev(faces, loop))
    /\ loop' = link_loop_prev(faces, loop)
    /\ pc' = IF ~ignorable_loop(loop') THEN "bwd_cross" ELSE "bwd_skip"
    /\ UNCHANGED <<faces, linked, cfg, ret, loops_entered, loops_exited, forward,
                   prev_loop, splines, scanned, face, l_first, k, enteredBy,
                   exitedBy, steps, outcome>>

\* backward: one turn of "v = loop.vert.index; loop = loop.link_loop_prev"
BwdSkip ==
    /\ pc = "bwd_skip"
    /\ v' = vert(faces, loop)
    /\ loop' = link_loop_prev(faces, loop)
    /\ pc' = IF ~ignorable_loop(loop') THEN "bwd_cross" ELSE "bwd_skip"
    /\ UNCHANGED <<faces, linked, cfg, ret, loops_entered, loops_exited, forward,
                   prev_loop, splines, scanned, face, l_first, k, enteredBy,
                   exitedBy, steps, outcome>>

\* mutant: the offset is chosen by the direction in which the step began
Point_startmode(p, l, fwd) ==
    [edge |-> edge(faces, l), prev |-> p, cur |-> l, up |-> forward]

\* the point appended for the crossing from p to l, continuing in direction fwd
Point(p, l, fwd) ==
    [edge |-> edge(faces, l), prev |-> p, cur |-> l, up |-> fwd]

\* a failed assert ends the run
Raise ==
    /\ pc' = "raised"
    /\ outcome' = "AssertionError"

\* mutant: the direction is not re-derived after the crossing
Cross_keepdir(target, vv) ==
    /\ prev_loop' = loop
    /\ loop' = target
    /\ forward' = forward
    /\ splines' = [splines EXCEPT ![Cur].pts = Append(@, Point(loop, target, forward))]
    /\ steps' = steps + 1
    /\ pc' = "loop_top"

\* the crossing common to both branches, and the point emission
Cross(target, vv) ==
    /\ prev_loop' = loop
    /\ loop' = target
    /\ forward' = (vert(faces, target) = vv)
    /\ splines' = [splines EXCEPT ![Cur].pts =
                       Append(@, Point(loop, target, vert(faces, target) = vv))]
    /\ steps' = steps + 1
    /\ pc' = "loop_top"

\* mutant: the forward crossing does not mark loops_entered
FwdCross_unmarked ==
    /\ pc = "fwd_cross"
    /\ v' = vert(faces, loop)
    /\ Cross(link_loops(loop)[1], vert(faces, loop))
    /\ UNCHANGED <<faces, linked, cfg, ret, loops_entered, loops_exited, scanned,
                   face, l_first, k, enteredBy, exitedBy, outcome>>

\* forward: assert, mark entered, cross via link_loops[0], re-derive forward
FwdCross ==
    /\ pc = "fwd_cross"
    /\ IF loops_entered[loop]
       THEN /\ Raise
            /\ UNCHANGED <<loops_entered, enteredBy, v, prev_loop, loop, forward,
                           splines, steps>>
       ELSE /\ loops_entered' = [loops_entered EXCEPT ![loop] = TRUE]
            /\ enteredBy' = [enteredBy EXCEPT ![loop] = Append(@, Cur)]
            /\ v' = vert(faces, loop)
            /\ IF link_loops(loop)[1] = loop
               THEN /\ Raise
                    /\ UNCHANGED <<prev_loop, loop, forward, splines, steps>>
               ELSE /\ Cross(link_loops(loop)[1], vert(faces, loop))
                    /\ UNCHANGED outcome
    /\ UNCHANGED <<faces, linked, cfg, ret, loops_exited, scanned, face, l_first,
                   k, exitedBy>>

\* mutant: the backward crossing does not mark loops_exited
BwdCross_unmarked ==
    /\ pc = "bwd_cross"
    /\ Cross(link_loops(loop)[Len(link_loops(loop))], v)
    /\ UNCHANGED <<faces, linked, cfg, ret, loops_entered, loops_exited, scanned,
                   face, l_first, k, enteredBy, exitedBy, v, outcome>>

\* backward: assert, mark exited, cross via link_loops[-1], re-derive forward
BwdCross ==
    /\ pc = "bwd_cross"
    /\ IF loops_exited[loop]
       THEN /\ Raise
            /\ UNCHANGED <<loops_exited, exitedBy, prev_loop, loop, forward,
                           splines, steps>>
       ELSE /\ loops_exited' = [loops_exited EXCEPT ![loop] = TRUE]
            /\ exitedBy' = [exitedBy EXCEPT ![loop] = Append(@, Cur)]
            /\ LET ll == link_loops(loop)
               IN  IF ll[Len(ll)] = loop
                   THEN /\ Raise
                        /\ UNCHANGED <<prev_loop, loop, forward, splines, steps>>
                   ELSE /\ Cross(ll[Len(ll)], v)
                        /\ UNCHANGED outcome
    /\ UNCHANGED <<faces, linked, cfg, ret, loops_entered, scanned, face, l_first,
                   k, enteredBy, v>>

Next ==
    \/ Execute
    \/ ScanFace
    \/ ScanLoop
    \/ SeedBackward
    \/ Finish
    \/ LoopTop
    \/ FwdSkip
    \/ BwdSkip
    \/ FwdCross
    \/ BwdCross

Spec == Init /\ [][Next]_vars

\* consistently oriented meshes
InitOriented == \E fs \in OrientedMeshes : InitRun(fs, Identity(Len(fs)), DefaultCfg)
SpecOriented == InitOriented /\ [][Next]_vars

\* any mesh, edges shared by three or more faces included; the radial cycle
\* of such an edge in either sense (with two loops both senses are the same)
RadialOrders(fs) ==
    IF Manifold(fs) THEN {Identity(Len(fs))} ELSE {Identity(Len(fs)), Reverse(Len(fs))}

AnyMeshes == {fs \in Meshes : Len(fs) < MaxFaces}

InitAny == \E fs \in AnyMeshes : \E ro \in RadialOrders(fs) : InitRun(fs, ro, DefaultCfg)
SpecAny == InitAny /\ [][Next]_vars


\* any property values the operator accepts, on meshes whose edges border at
\* most two faces
InitCfg == \E fs \in ManifoldMeshes : \E c \in Cfgs : InitRun(fs, Identity(Len(fs)), c)
SpecCfg == InitCfg /\ [][Next]_vars

\* the run is sequential and never waits: a step that can be taken is taken
FairSpecAny == InitAny /\ [][Next]_vars /\ WF_vars(Next)

----------------------------------------------------------------------------
(* Properties                                                              *)

SplineIds == 1..Len(splines)
Count(S) == Cardinality(S)

\* the writes of a flag of loop l made by splines seeded in direction d
WritesBySeed(by, l, d) == {j \in 1..Len(by[l]) : splines[by[l][j]].dir = d}

\* C1 (coverage): no flag is written twice during the run, and when the run
\* is finished every interior half-edge has entered and exited set, each
\* written exactly once.
C1_Coverage ==
    /\ \A l \in LoopIds : Len(enteredBy[l]) <= 1 /\ Len(exitedBy[l]) <= 1
    /\ pc = "done" =>
          \A l \in interior :
              /\ loops_entered[l] /\ loops_exited[l]
              /\ Len(enteredBy[l]) = 1 /\ Len(exitedBy[l]) = 1

C1_Witness == pc = "done" /\ Count(interior) >= 4 /\ Len(splines) >= 2

\* C2 as stated: when the run is finished, exited[h] was written exactly once
\* by the forward-seeded splines and entered[h] exactly once by the
\* backward-seeded splines, for every interior half-edge h.
C2_BySeedKind ==
    pc = "done" =>
        \A l \in interior :
            /\ Count(WritesBySeed(exitedBy, l, TRUE)) = 1
            /\ Count(WritesBySeed(enteredBy, l, FALSE)) = 1

\* C2 (amended): when the run is finished, for every interior half-edge h the
\* forward-seeded and the backward-seeded splines together wrote exited[h]
\* exactly once and entered[h] exactly once; a spline of either seed kind
\* writes flags of both kinds.
C2_AnySeedKind ==
    pc = "done" =>
        \A l \in interior :
            /\ Count(WritesBySeed(exitedBy, l, TRUE))
                 + Count(WritesBySeed(exitedBy, l, FALSE)) = 1
            /\ Count(WritesBySeed(enteredBy, l, TRUE))
                 + Count(WritesBySeed(enteredBy, l, FALSE)) = 1

C2_Witness ==
    /\ pc = "done"
    /\ \E l \in interior : Count(WritesBySeed(enteredBy, l, TRUE)) = 1
    /\ \E l \in interior : Count(WritesBySeed(exitedBy, l, FALSE)) = 1

\* C3 (closure): a walk is closed only in its starting state (seed half-edge,
\* seed direction); no earlier crossing lands in the starting state, and no
\* point of a spline repeats.
C3_Closure ==
    \A i \in SplineIds :
        LET s == splines[i] IN
        /\ s.closed => (s.closedAt = <<s.seed, s.dir>> /\ Len(s.pts) >= 1)
        /\ \A j \in 1..Len(s.pts) :
              (s.pts[j].cur = s.seed /\ s.pts[j].up = s.dir) => j = Len(s.pts)
        /\ \A j1 \in 1..Len(s.pts) : \A j2 \in 1..Len(s.pts) :
              j1 # j2 => s.pts[j1] # s.pts[j2]

C3_Witness ==
    \E i \in SplineIds : splines[i].closed /\ Len(splines[i].pts) >= 3 /\ ~splines[i].dir

\* C4 (termination): on any mesh every walk that is started reaches its
\* closure check and returns to the scan, every boundary-skipping loop exits
\* at a half-edge to cross, the run finishes, and the number of executed
\* steps never exceeds the number of interior half-edges.
C4_Termination ==
    /\ (pc = "loop_top") ~> (pc \in {"scan_loop", "seed_bwd", "scan_face"})
    /\ (pc \in {"fwd_skip", "bwd_skip"}) ~> (pc \in {"fwd_cross", "bwd_cross"})
    /\ <>(pc = "done")
    /\ [](steps <= Count(interior))

C4_Witness ==
    /\ pc = "done"
    /\ steps = Count(interior)
    /\ steps >= 6
    /\ \E l \in Loops(faces) : l \notin interior

\* C5 (boundary exclusion): a half-edge on a boundary edge never has entered
\* or exited set, never seeds a walk, and is neither the half-edge crossed
\* from nor the one landed on of any emitted point.
C5_BoundaryExclusion ==
    /\ \A l \in LoopIds \ interior :
          /\ ~loops_entered[l] /\ ~loops_exited[l]
          /\ enteredBy[l] = <<>> /\ exitedBy[l] = <<>>
    /\ \A i \in SplineIds :
          /\ splines[i].seed \in interior
          /\ \A j \in 1..Len(splines[i].pts) :
                /\ splines[i].pts[j].prev \in interior
                /\ splines[i].pts[j].cur \in interior

\* a forward walk has just passed a boundary half-edge
C5_Witness ==
    /\ pc = "fwd_cross"
    /\ link_loop_prev(faces, loop) \notin interior
    /\ \E i \in SplineIds : Len(splines[i].pts) >= 1

\* the points based on edge e with the offset weave_up (up) or weave_down
PointsOn(e, up) ==
    UNION {{<<i, j>> : j \in {n \in 1..Len(splines[i].pts) :
                                 /\ splines[i].pts[n].edge = e
                                 /\ splines[i].pts[n].up = up}} : i \in SplineIds}

RECURSIVE TotalPoints(_)
TotalPoints(i) == IF i = 0 THEN 0 ELSE Len(splines[i].pts) + TotalPoints(i - 1)

\* C6 (two crossings per interior edge): on a consistently oriented mesh, no
\* edge ever gets two points with the same offset, and when the run is
\* finished every interior edge is the base of exactly one weave_up point and
\* exactly one weave_down point, so that the points are as many as the
\* interior half-edges.
C6_TwoCrossings ==
    /\ \A l \in interior :
          /\ Count(PointsOn(edge(faces, l), TRUE)) <= 1
          /\ Count(PointsOn(edge(faces, l), FALSE)) <= 1
    /\ pc = "done" =>
          /\ \A l \in interior :
                /\ Count(PointsOn(edge(faces, l), TRUE)) = 1
                /\ Count(PointsOn(edge(faces, l), FALSE)) = 1
          /\ TotalPoints(Len(splines)) = Count(interior)

C6_Witness == pc = "done" /\ Count(interior) >= 6 /\ Len(splines) >= 2

\* C7 (alternating weave): on a consistently oriented mesh the first point of
\* a spline has the offset opposite to the seed direction, consecutive points
\* have opposite offsets, and a closed spline has an even number of points,
\* its last and first points having opposite offsets.
C7_Alternating ==
    \A i \in SplineIds :
        LET s == splines[i]
            n == Len(s.pts)
        IN  /\ n >= 1 => s.pts[1].up = ~s.dir
            /\ \A j \in 1..(n - 1) : s.pts[j + 1].up = ~s.pts[j].up
            /\ s.closed => (n % 2 = 0 /\ s.pts[n].up = ~s.pts[1].up)

C7_Witness ==
    \E i \in SplineIds : splines[i].closed /\ Len(splines[i].pts) >= 4

\* C8 (empty and non-empty output): a mesh without interior half-edges yields
\* no spline; a spline is seeded at an interior half-edge whose seed flag
\* (exited for a forward seed, entered for a backward seed) is false, being
\* first written by that spline, and a closed spline has at least one point.
C8_EmptyNonEmpty ==
    /\ interior = {} => splines = <<>>
    /\ \A i \in SplineIds :
          LET s == splines[i]
              by == IF s.dir THEN exitedBy ELSE enteredBy
          IN  /\ s.seed \in interior
              /\ \/ by[s.seed] = <<i>>
                 \/ by[s.seed] = <<>> /\ i = Cur /\ pc = "loop_top" /\ s.pts = <<>>
              /\ s.closed => Len(s.pts) >= 1

C8_Witness == pc = "done" /\ faces # <<>> /\ interior = {} /\ splines = <<>>

\* C9 as stated: a run on a mesh with an edge shared by more than two faces
\* does not complete and return splines.
C9_NonManifoldRejected == ~Manifold(faces) => pc # "done"

\* C10 as stated: with crossing_angle outside [0, pi/2] or a negative
\* crossing_strength or thickness no traversal step executes: no visited flag
\* is set, no spline is created and the run does not finish.
C10_ConfigRejected ==
    (\/ cfg.crossing_angle < 0 \/ cfg.crossing_angle > 2
     \/ cfg.crossing_strength < 0
     \/ cfg.thickness < 0) =>
        /\ splines = <<>>
        /\ \A l \in LoopIds : ~loops_entered[l] /\ ~loops_exited[l]
        /\ pc # "done"

C12_AssertionsHold ==
    /\ pc # "raised" /\ outcome # "AssertionError"
    /\ pc = "fwd_cross" =>
          /\ ~loops_entered[loop]
          /\ link_loops(loop) # <<>>
          /\ link_loops(loop)[1] # loop
    /\ pc = "bwd_cross" =>
          /\ ~loops_exited[loop]
          /\ link_loops(loop) # <<>>
          /\ link_loops(loop)[Len(link_loops(loop))] # loop

\* a backward step about to cross, late in a walk seeded forward
C12_Witness ==
    /\ pc = "bwd_cross"
    /\ splines[Cur].dir
    /\ Len(splines[Cur].pts) >= 3
    /\ Len(splines) >= 2

\* C13 as stated: a backward step that does not close marks exited = true on
\* the loop it starts from, right after the closure check and before it walks
\* by link_loop_prev.
C13_ExitedPreWalk ==
    [][(pc = "loop_top" /\ ~forward /\ ~loops_entered[loop]) =>
          (loops_exited'[loop] /\ loop' = loop)]_vars

\* C13 (amended): a backward step checks entered of the loop it starts from
\* for closure (a closing check writes no flag); when the walk is not closed
\* it marks entered = true on that same loop right after the check, before it
\* walks by link_loop_prev; the walk writes no flag; exited = true is marked
\* on the loop the walk arrives at, before the crossing.
C13_EnteredPreWalk ==
    [][/\ (pc = "loop_top" /\ ~forward /\ ~loops_entered[loop]) =>
             /\ loops_entered' = [loops_entered EXCEPT ![loop] = TRUE]
             /\ loops_exited' = loops_exited
             /\ loop' = loop
             /\ pc' = "bwd_skip"
       /\ (pc = "loop_top" /\ ~forward /\ loops_entered[loop]) =>
             /\ loops_entered' = loops_entered /\ loops_exited' = loops_exited
             /\ splines'[Cur].closed
       /\ pc = "bwd_skip" =>
             /\ loops_entered' = loops_entered /\ loops_exited' = loops_exited
             /\ loop' = link_loop_prev(faces, loop)
       /\ pc = "bwd_cross" =>
             /\ loops_exited' = [loops_exited EXCEPT ![loop] = TRUE]
             /\ loops_entered' = loops_entered]_vars

\* a backward step has marked entered on the loop it starts from, whose
\* exited flag is still false, and has not walked yet
C13_Witness ==
    /\ pc = "bwd_skip"
    /\ loops_entered[loop] /\ ~loops_exited[loop]
    /\ \A l \in LoopIds : loops_exited[l] => l # link_loop_prev(faces, loop)
    /\ Len(splines[Cur].pts) >= 1

\* C14 as stated: in a backward step v is the vertex of the loop about to be
\* crossed, as in a forward step: the walk continues forward iff the vertex
\* of the loop landed on equals the vertex of the loop crossed from.
C14_SameVertexRule ==
    [][(pc = "fwd_cross" \/ pc = "bwd_cross") =>
          forward' = (vert(faces, loop') = vert(faces, loop))]_vars

\* C14 (amended): a forward step compares the vertex of the loop landed on with
\* the vertex of the loop crossed from; a backward step compares it with the
\* vertex of the loop that follows the loop crossed from in its face (the
\* other end of the crossed edge, read before the last move by
\* link_loop_prev); in both the walk continues forward iff they are equal,
\* and prev_loop is the loop crossed from.
C14_DirectionRule ==
    [][/\ pc = "fwd_cross" =>
             /\ forward' = (vert(faces, loop') = vert(faces, loop))
             /\ loop' = link_loops(loop)[1]
             /\ prev_loop' = loop
       /\ pc = "bwd_cross" =>
             /\ v = vert(faces, link_loop_next(faces, loop))
             /\ forward' = (vert(faces, loop') = vert(faces, link_loop_next(faces, loop)))
             /\ loop' = link_loops(loop)[Len(link_loops(loop))]
             /\ prev_loop' = loop]_vars

\* after a backward step that landed on a loop with the vertex of the loop
\* crossed from: the walk continues forward although the two loops'
\* vertices differ from the remembered one
C14_Witness ==
    /\ pc = "loop_top"
    /\ prev_loop # NoLoop
    /\ v = vert(faces, link_loop_next(faces, prev_loop))
    /\ v # vert(faces, prev_loop)
    /\ forward
    /\ vert(faces, loop) = v

\* C15 (offset selection): every crossing appends exactly one point to the
\* current spline, based on the edge just crossed (the edge of the loop
\* crossed from, which is the edge of the loop landed on), computed from the
\* loops (prev_loop, loop), with the offset weave_up iff the direction
\* re-derived in that step is forward; no other step adds or changes a
\* point, and the points are as many as the executed steps.
C15_OffsetSelection ==
    [][/\ (pc = "fwd_cross" \/ pc = "bwd_cross") =>
             /\ Len(splines') = Len(splines)
             /\ splines'[Cur].pts =
                    Append(splines[Cur].pts,
                           [edge |-> edge(faces, loop), prev |-> loop,
                            cur |-> loop', up |-> forward'])
             /\ edge(faces, loop') = edge(faces, loop)
             /\ steps' = steps + 1
             /\ TotalPoints(Len(splines))' = steps'
       /\ ~(pc = "fwd_cross" \/ pc = "bwd_cross") =>
             /\ \A i \in SplineIds : splines'[i].pts = splines[i].pts
             /\ steps' = steps]_vars

\* a walk with two successive points of the same offset (a step that began
\* forward and continued forward) followed by one of the other offset
C15_Witness ==
    \E i \in SplineIds :
        /\ Len(splines[i].pts) >= 3
        /\ splines[i].pts[1].up /\ splines[i].pts[2].up /\ ~splines[i].pts[3].up

\* the loops whose flag is set in a visited map
Marked(flags) == {l \in LoopIds : flags[l]}

\* C16 (step frame): a non-closing step switches exactly one exited flag and
\* exactly one entered flag from false to true (one where it starts, one
\* where it is about to cross) and no other flag; a closing check, the skip
\* of boundary loops and the scan write no flag; no flag goes back to false;
\* the mesh is never modified.  Hence between steps the entered flags set,
\* the exited flags set and the executed steps are equally many.
C16_StepFrame ==
    /\ [](pc \in {"scan_face", "scan_loop", "seed_bwd", "loop_top", "done"} =>
            /\ Count(Marked(loops_entered)) = steps
            /\ Count(Marked(loops_exited)) = steps)
    /\ [][/\ faces' = faces /\ linked' = linked
          /\ \A l \in LoopIds : (loops_entered[l] => loops_entered'[l])
          /\ \A l \in LoopIds : (loops_exited[l] => loops_exited'[l])
          /\ IF pc = "loop_top" /\ forward /\ ~loops_exited[loop]
             THEN /\ Marked(loops_exited') = Marked(loops_exited) \cup {loop}
                  /\ loops_entered' = loops_entered
             ELSE IF pc = "loop_top" /\ ~forward /\ ~loops_entered[loop]
             THEN /\ Marked(loops_entered') = Marked(loops_entered) \cup {loop}
                  /\ loops_exited' = loops_exited
             ELSE IF pc = "fwd_cross"
             THEN /\ ~loops_entered[loop]
                  /\ Marked(loops_entered') = Marked(loops_entered) \cup {loop}
                  /\ loops_exited' = loops_exited
                  /\ steps' = steps + 1
             ELSE IF pc = "bwd_cross"
             THEN /\ ~loops_exited[loop]
                  /\ Marked(loops_exited') = Marked(loops_exited) \cup {loop}
                  /\ loops_entered' = loops_entered
                  /\ steps' = steps + 1
             ELSE /\ loops_entered' = loops_entered
                  /\ loops_exited' = loops_exited]_vars

\* between two steps of a walk on a mesh with an edge shared by three faces
C16_Witness ==
    /\ pc = "loop_top"
    /\ steps >= 4
    /\ Count(Marked(loops_entered)) = 4
    /\ \E l \in LoopIds : Len(link_loops(l)) = 2 /\ loops_entered[l]

\* the first loop from l on, following link_loop_next, that is not ignorable
RECURSIVE SkipForward(_)
SkipForward(l) ==
    IF ~ignorable_loop(l) THEN l ELSE SkipForward(link_loop_next(faces, l))

\* n(h): the next non-boundary loop after h in h's face
NextInterior(h) == SkipForward(link_loop_next(faces, h))

\* C17 (corner pairing): on any mesh, edges shared by more than two faces
\* included, between steps (at the top of the while True and at every point
\* of the scan) exited[h] = entered[n(h)] for every interior half-edge h;
\* so the loop a forward step reaches has entered = false, the loop a
\* backward step reaches has exited = false, and no assert ever fails.
C17_CornerPairing ==
    /\ pc \in {"start", "scan_face", "scan_loop", "seed_bwd", "loop_top", "done"} =>
          \A h \in interior : loops_exited[h] = loops_entered[NextInterior(h)]
    /\ pc = "fwd_cross" => ~loops_entered[loop]
    /\ pc = "bwd_cross" => ~loops_exited[loop]
    /\ pc # "raised"

\* a finished run on a mesh with an edge shared by three faces and a face
\* whose next interior loop lies beyond a boundary loop
C17_Witness ==
    /\ pc = "done"
    /\ \E l \in LoopIds : Len(link_loops(l)) = 2
    /\ \E h \in interior :
          /\ NextInterior(h) # link_loop_next(faces, h)
          /\ loops_exited[h] /\ loops_entered[NextInterior(h)]

\* the first loop from l on, following link_loop_prev, that is not ignorable
RECURSIVE SkipBackward(_)
SkipBackward(l) ==
    IF ~ignorable_loop(l) THEN l ELSE SkipBackward(link_loop_prev(faces, l))

\* the face corner (h, n(h)) is named by h.  A strand that passes the corner
\* of h from h to n(h) crosses the edge of n(h); it goes on forward into the
\* corner of the loop landed on, or backward into the corner that ends there.
CornerAfter(h) ==
    LET a == NextInterior(h)
        t == link_loops(a)[1]
    IN  IF vert(faces, t) = vert(faces, a) THEN t
        ELSE SkipBackward(link_loop_prev(faces, t))

\* A strand that passes the corner of h from n(h) to h crosses the edge of h,
\* comparing with the vertex of the loop after h.
CornerBefore(h) ==
    LET t == link_loops(h)[Len(link_loops(h))]
    IN  IF vert(faces, t) = vert(faces, link_loop_next(faces, h)) THEN t
        ELSE SkipBackward(link_loop_prev(faces, t))

\* the corners on the strand through the corners of S
RECURSIVE Strand(_)
Strand(S) ==
    LET T == S \cup {CornerAfter(h) : h \in S} \cup {CornerBefore(h) : h \in S}
    IN  IF T = S THEN S ELSE Strand(T)

\* the strands of the mesh: a grouping of the corners that the mesh alone fixes
Strands == {Strand({h}) : h \in interior}

\* the corners passed by spline i (a corner is passed when exited is set on
\* the loop it starts at)
CornersOf(i) == {h \in interior : exitedBy[h] = <<i>>}

\* C18 (scan-order independence): on a mesh whose edges border at most two
\* faces, whatever the order in which the scan meets the faces and the loops
\* of a face, the finished run has one spline per strand of the mesh and the
\* corners passed by a spline are the corners of one strand; number and
\* grouping depend on the mesh only.
C18_ScanOrderIndependence ==
    pc = "done" =>
        /\ Len(splines) = Count(Strands)
        /\ {CornersOf(i) : i \in SplineIds} = Strands

\* a finished run with several strands, one of them walked from a backward seed
C18_Witness ==
    /\ pc = "done"
    /\ Count(Strands) >= 2
    /\ \E i \in SplineIds : ~splines[i].dir /\ Count(CornersOf(i)) >= 3

====
